---- MODULE Spec2Model ----
(***************************************************************************)
(* A model of gns3/modules/vpcs/vpcs_device.py: one VPCSDevice object, the *)
(* requests it has in flight, the remote server that answers them, and the *)
(* signals, collection calls and file writes each handler produces.        *)
(*                                                                         *)
(* Python values are modelled as strings ("None" is Python's None); a dict *)
(* is a function from its keys to its values.  Every handler of the class  *)
(* is an operator from the device (with the effects it has produced so far *)
(* in the field out) to the device after the handler; Qt signals are       *)
(* delivered synchronously, so a slot connected to a signal runs inside    *)
(* the emit.                                                                *)
(***************************************************************************)
EXTENDS Integers, Sequences, FiniteSets, Bags, TLC

VARIABLES
    dev,    \* the VPCSDevice object (its fields, the class-level name table,
            \* and out: the effects of the handler that ran last, in order)
    net,    \* the bag of requests and responses in flight between device and server
    srv,    \* the server: the state it holds for each VM it has created
    used,   \* the VM identifiers the server has handed out so far
    last,   \* which handler ran last, and with which arguments
    saved,  \* the topology file: <<>>, or the record written by dump()
    orig,   \* the settings and the port of the device when saved was written
    session \* 1 until the saved topology is opened again, 2 after

vars == <<dev, net, srv, used, last, saved, orig, session>>

\* ---------------------------------------------------------------- bounds

MaxInFlight == 2
MaxDeletes == 2

\* ---------------------------------------------------------------- values

None == "None"
EmptyDict == [k \in {} |-> None]

NodeId == "n1"
ProjectId == "proj"
FirstPortId == "p1"
SecondPortId == "p2"
VmIds == {"v1", "v2"}

\* names another node of the topology has allocated
OtherNames == {"R2"}
\* the name allocateName("PC") hands out
AllocatedPC == "PC1"

\* ----------------------------------------------------------- dict helpers

Has(d, k) == k \in DOMAIN d
Put(d, k, v) == [x \in (DOMAIN d) \cup {k} |-> IF x = k THEN v ELSE d[x]]
Del(d, k) == [x \in (DOMAIN d) \ {k} |-> d[x]]
\* d.update(e)
Merge(d, e) == [x \in (DOMAIN d) \cup (DOMAIN e) |-> IF x \in DOMAIN e THEN e[x] ELSE d[x]]
\* d.get(k): None when the key is missing
Get(d, k) == IF k \in DOMAIN d THEN d[k] ELSE None
\* Python truthiness of a string-or-None value
Truthy(v) == v # None /\ v # ""

\* ---------------------------------------------------------------- effects

Sig(n, a) == [k |-> "signal", n |-> n, a |-> a, body |-> EmptyDict]
Call(n) == [k |-> "module", n |-> n, a |-> <<>>, body |-> EmptyDict]
Raise(n) == [k |-> "raise", n |-> n, a |-> <<>>, body |-> EmptyDict]
WriteFile(path, content) == [k |-> "write", n |-> path, a |-> <<content>>, body |-> EmptyDict]
\* self._server.<method>(path, callback, body): kind names method and path,
\* vm is the identifier formatted into the path, cb the callback and bound the
\* argument functools.partial binds to it
Request(kind, vm, cb, bound, body) ==
    [k |-> "request", n |-> kind, a |-> <<vm, cb, bound>>, body |-> body]

\* what an observer that reads the device sees: its fields, without the effects
Snapshot(d) ==
    [vm_id |-> d.vm_id, settings |-> d.settings, status |-> d.status, port |-> d.port,
     initialized |-> d.initialized, registered |-> d.registered, loading |-> d.loading,
     allocated_names |-> d.allocated_names]

\* an effect happens: it is recorded with the device as it is at that moment
Emit(d, e) ==
    [d EXCEPT !.out = Append(@, [k |-> e.k, n |-> e.n, a |-> e.a, body |-> e.body,
                                 at |-> Snapshot(d)])]
Raised(d) == \E i \in 1..Len(d.out) : d.out[i].k = "raise"
RaisedOf(d, n) == \E i \in 1..Len(d.out) : d.out[i].k = "raise" /\ d.out[i].n = n

Signals(o, n) == {i \in 1..Len(o) : o[i].k = "signal" /\ o[i].n = n}
AllSignals(o) == {i \in 1..Len(o) : o[i].k = "signal"}
Requests(o) == {i \in 1..Len(o) : o[i].k = "request"}
ModuleCalls(o, n) == {i \in 1..Len(o) : o[i].k = "module" /\ o[i].n = n}

\* ------------------------------------------------------------ collaborators

\* Node.name(): the name setting
name(d) == d.settings["name"]

\* Node.hasAllocatedName
hasAllocatedName(d, n) == n \in d.allocated_names

\* Node.updateAllocatedName: the node's allocated name is renamed
updateAllocatedName(d, n) ==
    [d EXCEPT !.allocated_names = (@ \ {name(d)}) \cup {n}]

\* Node.setName
setName(d, n) ==
    [d EXCEPT !.settings = Put(@, "name", n), !.allocated_names = @ \cup {n}]

\* Node.setInitialized
setInitialized(d, b) == [d EXCEPT !.initialized = b]

\* Node.setStatus
setStatus(d, s) == [d EXCEPT !.status = s]

\* Module.addNode / Module.removeNode on the owning collection
addNode(d) == Emit([d EXCEPT !.registered = TRUE], Call("addNode"))
removeNode(d) == Emit([d EXCEPT !.registered = FALSE], Call("removeNode"))

\* Port.dump(): the port's record in the topology file
PortDump(p) == [port_number |-> p.number, name |-> p.name, id |-> p.id]

\* ------------------------------------------------------------ construction

\* VPCSDevice.__init__
InitialSettings ==
    [x \in {"name", "script_file", "startup_script", "console"} |->
        CASE x = "name" -> ""
          [] x = "script_file" -> ""
          [] x = "startup_script" -> None
          [] x = "console" -> None]

Construct(portId, names) ==
    [vm_id |-> None,
     settings |-> InitialSettings,
     defaults |-> InitialSettings,
     loading |-> FALSE,
     initialized |-> FALSE,
     status |-> "stopped",
     port |-> [number |-> "0", name |-> "Ethernet0", id |-> portId, status |-> "stopped"],
     node_info |-> EmptyDict,
     connected |-> FALSE,
     export_directory |-> None,
     config_export_path |-> None,
     allocated_names |-> names,
     registered |-> FALSE,
     nSetup |-> 0,
     nCreated |-> 0,
     nDelete |-> 0,
     nDeleted |-> 0,
     out |-> <<>>]

\* the device without the effects of the last handler
State(d) == [d EXCEPT !.out = <<>>]

\* ------------------------------------------------------------------- setup

\* a settings loop that does not ask whether the key is a settings key
ChangedKeysAnyKey(s, result) == {x \in DOMAIN result : x \notin DOMAIN s \/ s[x] # result[x]}

\* the settings loop of _setupCallback and _updateCallback: the keys of the
\* response that are settings keys and whose value differs
ChangedKeys(s, result) == {x \in DOMAIN result : x \in DOMAIN s /\ s[x] # result[x]}

Reconcile(s, result) ==
    LET ch == ChangedKeys(s, result)
    IN  [x \in (DOMAIN s) \cup ch |-> IF x \in ch THEN result[x] ELSE s[x]]

\* an _updatePortSettings that restores the name of the port and not its id
updatePortSettingsNameOnly(d) ==
    LET d1 == [d EXCEPT !.connected = FALSE]
        ports == IF Has(d1.node_info, "ports") THEN d1.node_info["ports"] ELSE <<>>
        hit == {i \in 1..Len(ports) : ports[i].port_number = d1.port.number}
        d2 == IF hit = {} THEN d1
              ELSE LET tp == ports[CHOOSE i \in hit : \A j \in hit : j <= i]
                   IN  [d1 EXCEPT !.port.name = tp.name]
        d3 == setInitialized(d2, TRUE)
        d4 == Emit([d3 EXCEPT !.nCreated = @ + 1], Sig("created", <<NodeId>>))
        d5 == addNode(d4)
    IN  [d5 EXCEPT !.loading = FALSE]

\* _updatePortSettings: the slot load() connects to updated_signal
updatePortSettings(d) ==
    LET d1 == [d EXCEPT !.connected = FALSE]
        ports == IF Has(d1.node_info, "ports") THEN d1.node_info["ports"] ELSE <<>>
        hit == {i \in 1..Len(ports) : ports[i].port_number = d1.port.number}
        d2 == IF hit = {} THEN d1
              ELSE LET tp == ports[CHOOSE i \in hit : \A j \in hit : j <= i]
                   IN  [d1 EXCEPT !.port.name = tp.name, !.port.id = tp.id]
        d3 == setInitialized(d2, TRUE)
        d4 == Emit([d3 EXCEPT !.nCreated = @ + 1], Sig("created", <<NodeId>>))
        d5 == addNode(d4)
    IN  [d5 EXCEPT !.loading = FALSE]

\* updated_signal.emit(): the connected slot runs inside the emit
EmitUpdated(d) ==
    LET d1 == Emit(d, Sig("updated", <<>>))
    IN  IF d1.connected THEN updatePortSettings(d1) ELSE d1

\* setup(name, vm_id, additional_settings); readOk says whether the script
\* file named in additional_settings can be read, content is what it holds;
\* canAllocate says whether allocateName finds a free name
setup(d, nm, vm_id, additional_settings, readOk, content, canAllocate) ==
    LET d0 == [d EXCEPT !.nSetup = @ + 1]
        alloc == ~Truthy(nm)
        nm1 == IF alloc THEN (IF canAllocate THEN AllocatedPC ELSE None) ELSE nm
        d1 == IF alloc /\ canAllocate
              THEN [d0 EXCEPT !.allocated_names = @ \cup {AllocatedPC}]
              ELSE d0
    IN  IF ~Truthy(nm1)
        THEN Emit(d1, Sig("error", <<NodeId, "could not allocate a name">>))
        ELSE
          LET p0 == [x \in {"name", "project_id"} |->
                        IF x = "name" THEN nm1 ELSE ProjectId]
              p1 == IF Truthy(vm_id) THEN Put(p0, "vm_id", vm_id) ELSE p0
              a1 == IF Has(additional_settings, "script_file")
                    THEN Del(IF readOk
                             THEN Put(additional_settings, "startup_script", content)
                             ELSE additional_settings, "script_file")
                    ELSE additional_settings
              a2 == IF Has(a1, "startup_script") /\ vm_id # None
                    THEN Del(a1, "startup_script")
                    ELSE a1
          IN  Emit(d1, Request("create", None, "setupCallback", None, Merge(p1, a2)))

\* a _setupCallback that announces the creation before the loop over the
\* response and leaves the loop out
setupCallbackNoReconcile(d, result, error) ==
    IF error
    THEN Emit(d, Sig("server_error", <<NodeId, result["message"]>>))
    ELSE
      LET d1 == [d EXCEPT !.vm_id = result["vm_id"]]
      IN  IF d1.loading
          THEN EmitUpdated(d1)
          ELSE LET d2 == setInitialized(d1, TRUE)
                   d3 == Emit([d2 EXCEPT !.nCreated = @ + 1], Sig("created", <<NodeId>>))
               IN  addNode(d3)

\* a _setupCallback that does not ask whether the device is loading
setupCallbackIgnoresLoading(d, result, error) ==
    IF error
    THEN Emit(d, Sig("server_error", <<NodeId, result["message"]>>))
    ELSE
      LET d1 == [d EXCEPT !.vm_id = result["vm_id"],
                          !.settings = Reconcile(d.settings, result)]
          d2 == setInitialized(d1, TRUE)
          d3 == Emit([d2 EXCEPT !.nCreated = @ + 1], Sig("created", <<NodeId>>))
      IN  addNode(d3)

\* _setupCallback(result, error)
setupCallback(d, result, error) ==
    IF error
    THEN Emit(d, Sig("server_error", <<NodeId, result["message"]>>))
    ELSE
      LET d1 == [d EXCEPT !.vm_id = result["vm_id"],
                          !.settings = Reconcile(d.settings, result)]
      IN  IF d1.loading
          THEN EmitUpdated(d1)
          ELSE LET d2 == setInitialized(d1, TRUE)
                   d3 == Emit([d2 EXCEPT !.nCreated = @ + 1], Sig("created", <<NodeId>>))
               IN  addNode(d3)

\* ------------------------------------------------------------------ delete

\* a delete() that tells the links to detach when the rest is done
deleteDetachesLinksLast(d) ==
    LET d1 == [d EXCEPT !.nDelete = @ + 1]
        d2 == IF Truthy(d1.vm_id)
              THEN Emit(d1, Request("delete", d1.vm_id, "deleteCallback", None, EmptyDict))
              ELSE removeNode(Emit([d1 EXCEPT !.nDeleted = @ + 1], Sig("deleted", <<>>)))
    IN  Emit(d2, Sig("delete_links", <<>>))

\* delete()
delete(d) ==
    LET d1 == Emit([d EXCEPT !.nDelete = @ + 1], Sig("delete_links", <<>>))
    IN  IF Truthy(d1.vm_id)
        THEN Emit(d1, Request("delete", d1.vm_id, "deleteCallback", None, EmptyDict))
        ELSE removeNode(Emit([d1 EXCEPT !.nDeleted = @ + 1], Sig("deleted", <<>>)))

\* a _deleteCallback that returns after reporting the error, as the other
\* callbacks do
deleteCallbackReturnsOnError(d, result, error) ==
    IF error
    THEN Emit(d, Sig("server_error", <<NodeId, result["message"]>>))
    ELSE removeNode(Emit([d EXCEPT !.nDeleted = @ + 1], Sig("deleted", <<>>)))

\* _deleteCallback(result, error)
deleteCallback(d, result, error) ==
    LET d1 == IF error
              THEN Emit(d, Sig("server_error", <<NodeId, result["message"]>>))
              ELSE d
    IN  removeNode(Emit([d1 EXCEPT !.nDeleted = @ + 1], Sig("deleted", <<>>)))

\* ------------------------------------------------------------------ update

\* a name check that forgets the table of allocated names
NameCollisionOwnNameOnly(d, new_settings) ==
    /\ Has(new_settings, "name")
    /\ new_settings["name"] # name(d)
    /\ new_settings["name"] = AllocatedPC

\* the name check that opens update()
NameCollision(d, new_settings) ==
    /\ Has(new_settings, "name")
    /\ new_settings["name"] # name(d)
    /\ hasAllocatedName(d, new_settings["name"])

\* a params loop that sends every settings key of new_settings, changed or not
UpdateParamsUnchangedToo(d, new_settings) ==
    LET ks == {x \in DOMAIN new_settings : x \in DOMAIN d.settings}
    IN  [x \in ks |-> new_settings[x]]

\* the params loop of update(): the keys of new_settings that are settings
\* keys and whose value differs from the current one
UpdateParams(d, new_settings) ==
    LET ks == {x \in DOMAIN new_settings :
                  x \in DOMAIN d.settings /\ d.settings[x] # new_settings[x]}
    IN  [x \in ks |-> new_settings[x]]

\* update(new_settings)
update(d, new_settings) ==
    IF NameCollision(d, new_settings)
    THEN Emit(d, Sig("error", <<NodeId, "name already used", new_settings["name"]>>))
    ELSE Emit(d, Request("update", d.vm_id, "updateCallback", None,
                         UpdateParams(d, new_settings)))

\* an _updateCallback that announces the update before it stores the values
updateCallbackEmitsFirst(d, result, error) ==
    IF error
    THEN Emit(d, Sig("server_error", <<NodeId, result["code"], result["message"]>>))
    ELSE
      LET ch == ChangedKeys(d.settings, result)
          d1 == IF ch # {} \/ d.loading THEN EmitUpdated(d) ELSE d
          d2 == IF "name" \in ch THEN updateAllocatedName(d1, result["name"]) ELSE d1
      IN  [d2 EXCEPT !.settings = Reconcile(d.settings, result)]

\* _updateCallback(result, error)
updateCallback(d, result, error) ==
    IF error
    THEN Emit(d, Sig("server_error", <<NodeId, result["code"], result["message"]>>))
    ELSE
      LET ch == ChangedKeys(d.settings, result)
          updated == ch # {}
          d1 == IF "name" \in ch THEN updateAllocatedName(d, result["name"]) ELSE d
          d2 == [d1 EXCEPT !.settings = Reconcile(d.settings, result)]
      IN  IF updated \/ d2.loading THEN EmitUpdated(d2) ELSE d2

\* ------------------------------------------------------- start, stop, reload

\* the loop over self._ports: the device has one port
SetPortStatus(d, s) == [d EXCEPT !.port.status = s]

\* a start() without the check of the status
startUnguarded(d) ==
    Emit(d, Request("start", d.vm_id, "startCallback", None, EmptyDict))

\* start()
start(d) ==
    IF d.status = "started"
    THEN d
    ELSE Emit(d, Request("start", d.vm_id, "startCallback", None, EmptyDict))

\* a _startCallback that reports the error and goes on, as _deleteCallback does
startCallbackGoesOnAfterError(d, result, error) ==
    LET d1 == IF error
              THEN Emit(d, Sig("server_error", <<NodeId, result["message"]>>))
              ELSE d
    IN  Emit(SetPortStatus(setStatus(d1, "started"), "started"), Sig("started", <<>>))

\* a _startCallback without the loop over the ports
startCallbackForgetsPorts(d, result, error) ==
    IF error
    THEN Emit(d, Sig("server_error", <<NodeId, result["message"]>>))
    ELSE Emit(setStatus(d, "started"), Sig("started", <<>>))

\* _startCallback(result, error)
startCallback(d, result, error) ==
    IF error
    THEN Emit(d, Sig("server_error", <<NodeId, result["message"]>>))
    ELSE Emit(SetPortStatus(setStatus(d, "started"), "started"), Sig("started", <<>>))

\* stop()
stop(d) ==
    IF d.status = "stopped"
    THEN d
    ELSE Emit(d, Request("stop", d.vm_id, "stopCallback", None, EmptyDict))

\* _stopCallback(result, error)
stopCallback(d, result, error) ==
    IF error
    THEN Emit(d, Sig("server_error", <<NodeId, result["message"]>>))
    ELSE Emit(SetPortStatus(setStatus(d, "stopped"), "stopped"), Sig("stopped", <<>>))

\* reload()
reload(d) == Emit(d, Request("reload", d.vm_id, "reloadCallback", None, EmptyDict))

\* a _reloadCallback that marks the device started, as _startCallback does
reloadCallbackSetsStatus(d, result, error) ==
    IF error
    THEN Emit(d, Sig("server_error", <<NodeId, result["message"]>>))
    ELSE SetPortStatus(setStatus(d, "started"), "started")

\* _reloadCallback(result, error)
reloadCallback(d, result, error) ==
    IF error
    THEN Emit(d, Sig("server_error", <<NodeId, result["message"]>>))
    ELSE d

\* --------------------------------------------------------- UDP port and NIO

\* allocateUDPPort(port_id)
allocateUDPPort(d, port_id) ==
    Emit(d, Request("udp", None, "allocateUDPPortCallback", port_id, EmptyDict))

\* an _allocateUDPPortCallback that names the port of the device, not the
\* port its request was issued for
allocateUDPPortCallbackOwnPort(d, port_id, result, error) ==
    IF error
    THEN Emit(d, Sig("server_error", <<NodeId, result["message"]>>))
    ELSE Emit(d, Sig("allocate_udp_nio", <<NodeId, d.port.id, result["udp_port"]>>))

\* _allocateUDPPortCallback(port_id, result, error)
allocateUDPPortCallback(d, port_id, result, error) ==
    IF error
    THEN Emit(d, Sig("server_error", <<NodeId, result["message"]>>))
    ELSE Emit(d, Sig("allocate_udp_nio", <<NodeId, port_id, result["udp_port"]>>))

\* addNIO(port, nio): the callback is bound to port.id()
addNIO(d, nio) ==
    Emit(d, Request("addNIO", d.vm_id, "addNIOCallback", d.port.id, nio))

\* _addNIOCallback(port_id, result, error)
addNIOCallback(d, port_id, result, error) ==
    IF error
    THEN Emit(Emit(d, Sig("server_error", <<NodeId, result["message"]>>)),
              Sig("nio_cancel", <<NodeId>>))
    ELSE Emit(d, Sig("nio", <<NodeId, port_id>>))

\* deleteNIO(port)
deleteNIO(d) ==
    Emit(d, Request("deleteNIO", d.vm_id, "deleteNIOCallback", None, EmptyDict))

\* _deleteNIOCallback(result, error)
deleteNIOCallback(d, result, error) ==
    IF error
    THEN Emit(d, Sig("server_error", <<NodeId, result["message"]>>))
    ELSE d

\* ------------------------------------------------------ topology persistence

\* dump(): properties holds the settings that differ from the defaults
NonDefault(settings, defaults) ==
    LET ks == {x \in DOMAIN settings : x \in DOMAIN defaults /\ defaults[x] # settings[x]}
    IN  [x \in ks |-> settings[x]]

dump(d) ==
    [id |-> NodeId,
     vm_id |-> d.vm_id,
     type |-> "VPCSDevice",
     description |-> "VPCS device",
     properties |-> NonDefault(d.settings, d.defaults),
     server_id |-> "server",
     ports |-> <<PortDump(d.port)>>]

\* a load() that takes the remote id of the record as the device's own
loadStoresVmId(d, node_info, readOk, content) ==
    LET legacy == Get(node_info, "vpcs_id")
        vm_id == IF Truthy(legacy) THEN legacy ELSE Get(node_info, "vm_id")
        nm == Get(node_info["properties"], "name")
        rest == Del(node_info["properties"], "name")
        d1 == [d EXCEPT !.node_info = [node_info EXCEPT !.properties = rest],
                        !.vm_id = vm_id,
                        !.connected = TRUE,
                        !.loading = TRUE]
    IN  setup(setName(d1, nm), nm, vm_id, rest, readOk, content, FALSE)

\* load(node_info); settings.pop("name") also removes the name from
\* node_info["properties"], which is the same dict
load(d, node_info, readOk, content) ==
    LET d1 == [d EXCEPT !.node_info = node_info]
        legacy == Get(node_info, "vpcs_id")
    IN  IF ~Truthy(legacy) /\ ~Has(node_info, "vm_id")
        THEN Emit(d1, Raise("KeyError"))
        ELSE
          LET vm_id == IF Truthy(legacy) THEN legacy ELSE node_info["vm_id"]
              settings == node_info["properties"]
          IN  IF ~Has(settings, "name")
              THEN Emit(d1, Raise("KeyError"))
              ELSE
                LET nm == settings["name"]
                    rest == Del(settings, "name")
                    d2 == [d1 EXCEPT !.node_info = [node_info EXCEPT !.properties = rest],
                                     !.connected = TRUE,
                                     !.loading = TRUE]
                IN  setup(setName(d2, nm), nm, vm_id, rest, readOk, content, FALSE)

\* ------------------------------------------------- script import and export

Scripts == {"s1"}
ExportPaths == {"out1", "out2"}
Directories == {"dirA", "dirB"}

\* gns3.utils.normalize_filename: the names of this model hold only letters
\* and digits, which it keeps
normalize_filename(n) == n

\* os.path.join(directory, normalize_filename(name)) + "_startup.vpc"
ScriptPath(directory, n) ==
    CASE directory = "dirA" /\ n = "R1" -> "dirA/R1_startup.vpc"
      [] directory = "dirA" /\ n = "R3" -> "dirA/R3_startup.vpc"
      [] directory = "dirA" /\ n = "PC1" -> "dirA/PC1_startup.vpc"
      [] directory = "dirA" /\ n = "" -> "dirA/_startup.vpc"
      [] directory = "dirB" /\ n = "R1" -> "dirB/R1_startup.vpc"
      [] directory = "dirB" /\ n = "R3" -> "dirB/R3_startup.vpc"
      [] directory = "dirB" /\ n = "PC1" -> "dirB/PC1_startup.vpc"
      [] directory = "dirB" /\ n = "" -> "dirB/_startup.vpc"
      [] OTHER -> "?/_startup.vpc"

ScriptPaths == {ScriptPath(dir, n) : dir \in Directories, n \in {"R1", "R3", "PC1", ""}}

\* exportConfig(config_export_path)
exportConfig(d, config_export_path) ==
    Emit([d EXCEPT !.config_export_path = config_export_path],
         Request("get", d.vm_id, "exportConfigCallback", None, EmptyDict))

\* _exportConfigCallback(result, error); writeOk: open() and write() succeed
exportConfigCallback(d, result, error, writeOk) ==
    IF error
    THEN Emit(d, Sig("server_error", <<NodeId, result["code"], result["message"]>>))
    ELSE IF Has(result, "startup_script") /\ Truthy(d.config_export_path)
         THEN IF ~writeOk
              THEN Emit(d, Sig("error", <<NodeId, "could not export", d.config_export_path>>))
              ELSE IF result["startup_script"] = None
                   THEN Emit(d, Raise("AttributeError"))
                   ELSE Emit(d, WriteFile(d.config_export_path, result["startup_script"]))
         ELSE d

\* exportConfigToDirectory(directory)
exportConfigToDirectory(d, directory) ==
    Emit([d EXCEPT !.export_directory = directory],
         Request("get", d.vm_id, "exportConfigToDirectoryCallback", None, EmptyDict))

\* _exportConfigToDirectoryCallback(result, error)
exportConfigToDirectoryCallback(d, result, error, writeOk) ==
    IF error
    THEN Emit(d, Sig("server_error", <<NodeId, result["code"], result["message"]>>))
    ELSE IF Has(result, "startup_script")
         THEN IF d.export_directory = None
              THEN Emit(d, Raise("TypeError"))
              ELSE IF result["startup_script"] = None
                   THEN Emit(d, Raise("AttributeError"))
                   ELSE
                     LET config_path == ScriptPath(d.export_directory, normalize_filename(name(d)))
                         d1 == IF writeOk
                               THEN Emit(d, WriteFile(config_path, result["startup_script"]))
                               ELSE Emit(d, Sig("error", <<NodeId, "could not export", config_path>>))
                     IN  [d1 EXCEPT !.export_directory = None]
         ELSE [d EXCEPT !.export_directory = None]

\* importConfig(path); readOk: open() and read() succeed, content: the file
importConfig(d, path, readOk, content) ==
    IF ~readOk
    THEN Emit(d, Raise("OSError"))
    ELSE update(d, [x \in {"startup_script"} |-> content])

\* an importConfigFromDirectory without the test of new_settings before update
importConfigFromDirectoryAlwaysUpdates(d, directory, listOk, present) ==
    IF ~listOk
    THEN Emit(d, Raise("OSError"))
    ELSE
      LET script_file == ScriptPath(directory, normalize_filename(name(d)))
      IN  IF present
          THEN update(d, [x \in {"script_file"} |-> script_file])
          ELSE update(Emit(d, Sig("warning", <<NodeId, "no script file could be found">>)),
                      EmptyDict)

\* importConfigFromDirectory(directory); listOk: os.listdir succeeds,
\* present: the expected file name is among the directory's contents
importConfigFromDirectory(d, directory, listOk, present) ==
    IF ~listOk
    THEN Emit(d, Raise("OSError"))
    ELSE
      LET script_file == ScriptPath(directory, normalize_filename(name(d)))
      IN  IF present
          THEN update(d, [x \in {"script_file"} |-> script_file])
          ELSE Emit(d, Sig("warning", <<NodeId, "no script file could be found">>))

\* -------------------------------------------------------------- the server

\* what the callback of a failed request is given
ErrorResult == [x \in {"message", "code"} |-> IF x = "message" THEN "failed" ELSE "404"]

\* the state of a VM the server creates from the body of a create request
NewVm(body) ==
    [x \in {"name", "console", "startup_script"} |->
        CASE x = "name" -> body["name"]
          [] x = "console" -> IF Has(body, "console") THEN body["console"] ELSE "5000"
          [] x = "startup_script" -> Get(body, "startup_script")]

\* the state of a VM after an update request: the keys the server knows
UpdatedVm(vm, body) ==
    [x \in DOMAIN vm |-> IF Has(body, x) THEN body[x] ELSE vm[x]]

\* the body of a successful answer about VM id: its state, its id, its project
VmAnswer(state, id) ==
    Merge(state, [x \in {"vm_id", "project_id"} |-> IF x = "vm_id" THEN id ELSE ProjectId])

\* the UDP ports the server can allocate, and its answer when it allocates one
UdpPorts == {"10000", "10001"}
UdpAnswer(lport) == [x \in {"udp_port"} |-> lport]

FreshVmId == IF "v1" \notin used THEN "v1" ELSE "v2"

\* whether the server can answer request m without an error
CanServe(m) ==
    CASE m.kind = "create" -> Has(m.body, "vm_id") \/ VmIds \ used # {}
      [] m.kind = "udp" -> TRUE
      [] OTHER -> m.vm \in DOMAIN srv

\* the VM a create request is about
CreateId(m) == IF Has(m.body, "vm_id") THEN m.body["vm_id"] ELSE FreshVmId

\* the server's state after it has carried out request m
Served(m) ==
    CASE m.kind = "create" ->
            IF CreateId(m) \in DOMAIN srv THEN srv ELSE Put(srv, CreateId(m), NewVm(m.body))
      [] m.kind = "update" -> Put(srv, m.vm, UpdatedVm(srv[m.vm], m.body))
      [] m.kind = "delete" -> Del(srv, m.vm)
      [] OTHER -> srv

\* the body of the answer to request m, given the server's state after it
Answer(m, after) ==
    CASE m.kind = "create" -> VmAnswer(after[CreateId(m)], CreateId(m))
      [] m.kind = "update" -> VmAnswer(after[m.vm], m.vm)
      [] m.kind = "get" -> VmAnswer(after[m.vm], m.vm)
      [] OTHER -> EmptyDict

\* the answers the server can give to request m
Answers(m, after) ==
    IF m.kind = "udp" THEN {UdpAnswer(lport) : lport \in UdpPorts} ELSE {Answer(m, after)}

\* --------------------------------------------------------------- the network

\* the requests a handler has issued, as messages for the server; dest notes
\* the destination named in the call that issued an export request, which
\* the request itself does not carry
SentFor(o, dest) ==
    SetToBag({[stage |-> "req", kind |-> o[i].n, vm |-> o[i].a[1], cb |-> o[i].a[2],
               bound |-> o[i].a[3], body |-> o[i].body, error |-> FALSE, result |-> EmptyDict,
               dest |-> dest]
                 : i \in Requests(o)})

Sent(o) == SentFor(o, None)

InFlight == BagToSet(net)
Without(m) == net (-) SetToBag({m})

Begin(d) == [d EXCEPT !.out = <<>>]

\* a method of the device is called with arguments args
CalledFor(op, args, d, dest) ==
    /\ dev' = d
    /\ net' = net (+) SentFor(d.out, dest)
    /\ last' = [op |-> op, args |-> args, error |-> FALSE, result |-> EmptyDict, bound |-> None]
    /\ UNCHANGED <<srv, used, saved, orig, session>>

Called(op, args, d) == CalledFor(op, args, d, None)

\* the owner calls methods of a device it has not removed, and the model
\* bounds the messages in flight
CanCall == dev.nDeleted = 0 /\ BagCardinality(net) < MaxInFlight

\* ----------------------------------------------------------------- actions

Init ==
    /\ dev = Construct(FirstPortId, OtherNames)
    /\ net = EmptyBag
    /\ srv = EmptyDict
    /\ used = {}
    /\ last = [op |-> "init", args |-> <<>>, error |-> FALSE, result |-> EmptyDict, bound |-> None]
    /\ saved = <<>>
    /\ orig = <<>>
    /\ session = 1

SetupNames == {None, "R1"}
SetupExtras == {EmptyDict, [x \in {"script_file"} |-> "in1"]}

\* setup() as the owner calls it, once, for a new node: no VM identifier
SetupWith(names, extras) ==
    /\ CanCall
    /\ dev.nSetup = 0
    /\ \E nm \in names, extra \in extras :
       \E readOk \in (IF Has(extra, "script_file") THEN BOOLEAN ELSE {TRUE}),
          canAllocate \in (IF nm = None THEN BOOLEAN ELSE {TRUE}) :
          Called("setup", <<nm, None, extra>>,
                 setup(Begin(dev), nm, None, extra, readOk, "s1", canAllocate))

Setup == SetupWith(SetupNames, {EmptyDict})

Delete ==
    /\ CanCall
    /\ dev.nDelete < MaxDeletes
    /\ Called("delete", <<>>, delete(Begin(dev)))

\* a free name, a name another node holds, and a console port sent with a key
\* that is no setting
UpdateInputs ==
    {[x \in {"name"} |-> "R3"],
     [x \in {"name"} |-> "R2"],
     [x \in {"console", "bogus"} |-> IF x = "bogus" THEN "x" ELSE "5001"]}

Update ==
    /\ CanCall
    /\ \E new_settings \in UpdateInputs :
          Called("update", <<new_settings>>, update(Begin(dev), new_settings))

Start == CanCall /\ Called("start", <<>>, start(Begin(dev)))

Stop == CanCall /\ Called("stop", <<>>, stop(Begin(dev)))

Reload == CanCall /\ Called("reload", <<>>, reload(Begin(dev)))

PortIds == {"7", "8"}

AllocateUDPPort ==
    /\ CanCall
    /\ \E port_id \in PortIds :
          Called("allocateUDPPort", <<port_id>>, allocateUDPPort(Begin(dev), port_id))

\* Node.getNIOInfo(nio) for a UDP NIO
NioInfo == [x \in {"type", "lport"} |-> IF x = "type" THEN "nio_udp" ELSE "10000"]

AddNIO == CanCall /\ Called("addNIO", <<NioInfo>>, addNIO(Begin(dev), NioInfo))

DeleteNIO == CanCall /\ Called("deleteNIO", <<>>, deleteNIO(Begin(dev)))

ExportConfig ==
    /\ CanCall
    /\ \E path \in ExportPaths :
          CalledFor("exportConfig", <<path>>, exportConfig(Begin(dev), path), path)

ExportConfigToDirectory ==
    /\ CanCall
    /\ \E dir \in Directories :
          CalledFor("exportConfigToDirectory", <<dir>>,
                    exportConfigToDirectory(Begin(dev), dir), dir)

ImportConfig ==
    /\ CanCall
    /\ \E readOk \in BOOLEAN, content \in Scripts :
          Called("importConfig", <<"in1", readOk, content>>,
                 importConfig(Begin(dev), "in1", readOk, content))

ImportConfigFromDirectory ==
    /\ CanCall
    /\ \E dir \in Directories, listOk \in BOOLEAN, present \in BOOLEAN :
          Called("importConfigFromDirectory", <<dir, listOk, present>>,
                 importConfigFromDirectory(Begin(dev), dir, listOk, present))

\* the topology is saved: the record of an initialized node is written
Dump ==
    /\ dev.nDeleted = 0
    /\ dev.initialized
    /\ saved = <<>>
    /\ saved' = <<dump(dev)>>
    /\ orig' = <<[settings |-> dev.settings, port |-> dev.port]>>
    /\ dev' = Begin(dev)
    /\ last' = [op |-> "dump", args |-> <<>>, error |-> FALSE, result |-> EmptyDict, bound |-> None]
    /\ UNCHANGED <<net, srv, used, session>>

\* the saved topology is opened again: a new device is constructed and loads
\* the record; the connections of the old session are closed
Load ==
    /\ saved # <<>>
    /\ session = 1
    /\ \E readOk \in BOOLEAN :
          LET d == load(Construct(SecondPortId, OtherNames), saved[1], readOk, "s1")
          IN  /\ dev' = d
              /\ net' = Sent(d.out)
              /\ last' = [op |-> "load", args |-> <<saved[1], readOk>>, error |-> FALSE,
                          result |-> EmptyDict, bound |-> None]
    /\ session' = 2
    /\ UNCHANGED <<srv, used, saved, orig>>

\* a step of the server: no handler of the device has run in it
ServerStep ==
    /\ dev' = Begin(dev)
    /\ last' = [op |-> "serve", args |-> <<>>, error |-> FALSE, result |-> EmptyDict, bound |-> None]
    /\ UNCHANGED <<saved, orig, session>>

\* the server carries out a request and answers it
ServeOk(m) ==
    /\ m.stage = "req"
    /\ CanServe(m)
    /\ srv' = Served(m)
    /\ used' = IF m.kind = "create" THEN used \cup {CreateId(m)} ELSE used
    /\ \E result \in Answers(m, srv') :
          net' = Without(m) (+) SetToBag({[m EXCEPT !.stage = "resp", !.result = result]})
    /\ ServerStep

\* the server refuses a request, or the request fails on its way
ServeError(m) ==
    /\ m.stage = "req"
    /\ net' = Without(m) (+) SetToBag({[m EXCEPT !.stage = "resp", !.error = TRUE, !.result = ErrorResult]})
    /\ UNCHANGED <<srv, used>>
    /\ ServerStep

\* the server answers, without an error, an update keyed by an identifier it
\* holds no VM for (the device formats its unset remote id into the path):
\* nothing says what a server does with such a request; this one reports the
\* settings it was sent
ServeUnkeyed(m) ==
    /\ m.stage = "req"
    /\ m.kind = "update"
    /\ m.vm \notin DOMAIN srv
    /\ net' = Without(m) (+) SetToBag({[m EXCEPT !.stage = "resp", !.result = m.body]})
    /\ UNCHANGED <<srv, used>>
    /\ ServerStep

\* a response reaches the callback of its request
Delivered(m, d) ==
    /\ dev' = d
    /\ net' = Without(m) (+) Sent(d.out)
    /\ last' = [op |-> m.cb, args |-> <<>>, error |-> m.error, result |-> m.result,
                bound |-> m.bound]
    /\ UNCHANGED <<srv, used, saved, orig, session>>

Response(m, cb) == m.stage = "resp" /\ m.cb = cb

SetupCallback(m) ==
    Response(m, "setupCallback") /\ Delivered(m, setupCallback(Begin(dev), m.result, m.error))

DeleteCallback(m) ==
    Response(m, "deleteCallback") /\ Delivered(m, deleteCallback(Begin(dev), m.result, m.error))

UpdateCallback(m) ==
    Response(m, "updateCallback") /\ Delivered(m, updateCallback(Begin(dev), m.result, m.error))

StartCallback(m) ==
    Response(m, "startCallback") /\ Delivered(m, startCallback(Begin(dev), m.result, m.error))

StopCallback(m) ==
    Response(m, "stopCallback") /\ Delivered(m, stopCallback(Begin(dev), m.result, m.error))

ReloadCallback(m) ==
    Response(m, "reloadCallback") /\ Delivered(m, reloadCallback(Begin(dev), m.result, m.error))

AllocateUDPPortCallback(m) ==
    /\ Response(m, "allocateUDPPortCallback")
    /\ Delivered(m, allocateUDPPortCallback(Begin(dev), m.bound, m.result, m.error))

AddNIOCallback(m) ==
    /\ Response(m, "addNIOCallback")
    /\ Delivered(m, addNIOCallback(Begin(dev), m.bound, m.result, m.error))

DeleteNIOCallback(m) ==
    /\ Response(m, "deleteNIOCallback")
    /\ Delivered(m, deleteNIOCallback(Begin(dev), m.result, m.error))

\* a response reaches an export callback, whose write succeeds or fails
DeliveredExport(m, writeOk, d) ==
    /\ dev' = d
    /\ net' = Without(m) (+) Sent(d.out)
    /\ last' = [op |-> m.cb, args |-> <<writeOk, m.dest>>, error |-> m.error, result |-> m.result,
                bound |-> m.bound]
    /\ UNCHANGED <<srv, used, saved, orig, session>>

ExportConfigCallback(m) ==
    /\ Response(m, "exportConfigCallback")
    /\ \E writeOk \in BOOLEAN :
          DeliveredExport(m, writeOk,
                          exportConfigCallback(Begin(dev), m.result, m.error, writeOk))

ExportConfigToDirectoryCallback(m) ==
    /\ Response(m, "exportConfigToDirectoryCallback")
    /\ \E writeOk \in BOOLEAN :
          DeliveredExport(m, writeOk,
                          exportConfigToDirectoryCallback(Begin(dev), m.result, m.error, writeOk))

\* the life cycle of a node: creation, settings, start and stop, removal,
\* saving and loading
Next ==
    \/ Setup
    \/ Delete
    \/ Update
    \/ Start
    \/ Stop
    \/ Reload
    \/ \E m \in InFlight : ServeOk(m)
    \/ \E m \in InFlight : ServeError(m)
    \/ \E m \in InFlight : SetupCallback(m)
    \/ \E m \in InFlight : DeleteCallback(m)
    \/ \E m \in InFlight : UpdateCallback(m)
    \/ \E m \in InFlight : StartCallback(m)
    \/ \E m \in InFlight : StopCallback(m)
    \/ \E m \in InFlight : ReloadCallback(m)

Spec == Init /\ [][Next]_vars

\* a node and its script file: import and export
SetupNamed == SetupWith({"R1"}, {EmptyDict})
SetupScript == SetupWith({"R1"}, SetupExtras)

NextScript ==
    \/ SetupScript
    \/ ImportConfig
    \/ ImportConfigFromDirectory
    \/ ExportConfig
    \/ ExportConfigToDirectory
    \/ \E m \in InFlight : ServeOk(m)
    \/ \E m \in InFlight : ServeError(m)
    \/ \E m \in InFlight : SetupCallback(m)
    \/ \E m \in InFlight : UpdateCallback(m)
    \/ \E m \in InFlight : ExportConfigCallback(m)
    \/ \E m \in InFlight : ExportConfigToDirectoryCallback(m)

SpecScript == Init /\ [][NextScript]_vars

\* a node that is saved in a topology file, which is then opened again
NextLoad ==
    \/ SetupNamed
    \/ Update
    \/ Dump
    \/ Load
    \/ \E m \in InFlight : ServeOk(m)
    \/ \E m \in InFlight : ServeError(m)
    \/ \E m \in InFlight : SetupCallback(m)
    \/ \E m \in InFlight : UpdateCallback(m)

SpecLoad == Init /\ [][NextLoad]_vars

\* a node and its port: UDP port allocation and NIOs
NextPort ==
    \/ SetupNamed
    \/ AllocateUDPPort
    \/ AddNIO
    \/ DeleteNIO
    \/ \E m \in InFlight : ServeOk(m)
    \/ \E m \in InFlight : ServeError(m)
    \/ \E m \in InFlight : SetupCallback(m)
    \/ \E m \in InFlight : AllocateUDPPortCallback(m)
    \/ \E m \in InFlight : AddNIOCallback(m)
    \/ \E m \in InFlight : DeleteNIOCallback(m)

SpecPort == Init /\ [][NextPort]_vars

\* a node whose requests the server may refuse: every operation whose failure
\* is reported and has a notification of success
NextRemote ==
    \/ SetupNamed
    \/ Update
    \/ Start
    \/ Stop
    \/ AllocateUDPPort
    \/ AddNIO
    \/ DeleteNIO
    \/ \E m \in InFlight : ServeOk(m)
    \/ \E m \in InFlight : ServeError(m)
    \/ \E m \in InFlight : SetupCallback(m)
    \/ \E m \in InFlight : UpdateCallback(m)
    \/ \E m \in InFlight : StartCallback(m)
    \/ \E m \in InFlight : StopCallback(m)
    \/ \E m \in InFlight : AllocateUDPPortCallback(m)
    \/ \E m \in InFlight : AddNIOCallback(m)
    \/ \E m \in InFlight : DeleteNIOCallback(m)

SpecRemote == Init /\ [][NextRemote]_vars

\* a node that is saved and loaded, with a server that may answer any update
NextAnyAnswer ==
    \/ SetupNamed
    \/ Update
    \/ Dump
    \/ Load
    \/ \E m \in InFlight : ServeOk(m)
    \/ \E m \in InFlight : ServeError(m)
    \/ \E m \in InFlight : ServeUnkeyed(m)
    \/ \E m \in InFlight : SetupCallback(m)
    \/ \E m \in InFlight : UpdateCallback(m)

SpecAnyAnswer == Init /\ [][NextAnyAnswer]_vars

\* ------------------------------------------------------------------ claims

DeletesInFlight ==
    LET ds == {m \in InFlight : m.kind = "delete"}
    IN  BagCardinality([m \in ds |-> net[m]])

\* C1: every delete() completes locally.  A delete() on a device without a
\* remote id emits "deleted" and calls removeNode in the call itself; every
\* delivered delete response, success or error, emits "deleted" and calls
\* removeNode; so each delete() call has either completed or still has its
\* request or response in flight.
C1_DeleteAlwaysCompletes ==
    /\ (last.op = "delete" /\ ~Truthy(dev.vm_id)) =>
          /\ Signals(dev.out, "deleted") # {}
          /\ ModuleCalls(dev.out, "removeNode") # {}
    /\ last.op = "deleteCallback" =>
          /\ Cardinality(Signals(dev.out, "deleted")) = 1
          /\ Cardinality(ModuleCalls(dev.out, "removeNode")) = 1
          /\ ~dev.registered
    /\ dev.nDelete = dev.nDeleted + DeletesInFlight

\* a delete response that reports an error has been delivered, and the device
\* has announced its deletion and left the collection all the same
C1_Witness ==
    /\ last.op = "deleteCallback"
    /\ last.error
    /\ Signals(dev.out, "server_error") # {}
    /\ Signals(dev.out, "deleted") # {}
    /\ ModuleCalls(dev.out, "removeNode") # {}

\* C2: start() on a started device and stop() on a stopped device issue no
\* request, emit nothing and change nothing of the device.
C2_StartStopIdempotent ==
    [][((last'.op = "start" /\ dev.status = "started")
          \/ (last'.op = "stop" /\ dev.status = "stopped"))
        => /\ dev'.out = <<>>
           /\ State(dev') = State(dev)
           /\ net' = net]_vars

\* start() has been called on a started device
C2_Witness ==
    /\ last.op = "start"
    /\ dev.status = "started"
    /\ dev.out = <<>>

\* C3: update() with a name that differs from the device's and that another
\* node holds emits exactly one error notification and nothing else, issues no
\* request and leaves the settings as they were.
C3_UpdateNameCollision ==
    [][(/\ last'.op = "update"
        /\ Has(last'.args[1], "name")
        /\ last'.args[1]["name"] # name(dev)
        /\ last'.args[1]["name"] \in OtherNames)
        => /\ Cardinality(Signals(dev'.out, "error")) = 1
           /\ Len(dev'.out) = 1
           /\ net' = net
           /\ dev'.settings = dev.settings]_vars

\* update() has been called with the name of another node on a device that
\* has a remote id, and has reported the error
C3_Witness ==
    /\ last.op = "update"
    /\ Has(last.args[1], "name")
    /\ last.args[1]["name"] \in OtherNames
    /\ Truthy(dev.vm_id)
    /\ Signals(dev.out, "error") # {}

\* C4: the settings keep the keys of the defaults, whatever keys a response
\* or an update carries, and an update request carries only such keys.
C4_SettingsKeysAreDefaultsKeys ==
    /\ DOMAIN dev.settings = DOMAIN dev.defaults
    /\ \A m \in InFlight : m.kind = "update" => DOMAIN m.body \subseteq DOMAIN dev.defaults

\* after a load, an update response with keys that are no settings keys has
\* been reconciled
C4_Witness ==
    /\ session = 2
    /\ last.op = "updateCallback"
    /\ ~last.error
    /\ DOMAIN last.result \ DOMAIN dev.defaults # {}
    /\ Signals(dev.out, "updated") # {}

\* the load sequence of the reopened topology has completed: the answer to
\* the create request of load() has been handled without error
LoadCompleted ==
    /\ session = 2
    /\ last.op = "setupCallback"
    /\ ~last.error
    /\ dev.initialized
    /\ ~dev.loading

\* the device equals the one that was dumped: name, settings that differ
\* from the defaults, name and id of port 0
SameAsDumped ==
    /\ name(dev) = orig[1].settings["name"]
    /\ NonDefault(dev.settings, dev.defaults) = NonDefault(orig[1].settings, dev.defaults)
    /\ dev.port.name = orig[1].port.name
    /\ dev.port.id = orig[1].port.id

\* the server's answer reports, for every setting it reports, the value the
\* device held when it was dumped
AnswerMirrorsDump ==
    \A x \in DOMAIN last.result \cap DOMAIN orig[1].settings :
        last.result[x] = orig[1].settings[x]

\* C5 as stated: dump() then load() on a new device gives the dumped device
\* back, for every initialized device.
C5_DumpLoadRoundTrip == LoadCompleted => SameAsDumped

\* C5 as amended: it does when the state the server holds for the device is
\* the state the device held when it was dumped.
C5_DumpLoadRoundTripMirrored == (LoadCompleted /\ AnswerMirrorsDump) => SameAsDumped

\* a device renamed and given another console port has been dumped and loaded
C5_Witness ==
    /\ LoadCompleted
    /\ AnswerMirrorsDump
    /\ orig[1].settings["name"] = "R3"
    /\ orig[1].settings["console"] = "5001"
    /\ dev.port.id = FirstPortId

\* C6: the first successful create response after setup() stores the id of
\* the response, gives every settings key of the response its value, marks
\* the device initialized, registers it and emits "created" once and no
\* "updated".
C6_SetupSuccess ==
    (last.op = "setupCallback" /\ ~last.error /\ session = 1) =>
        /\ dev.vm_id = last.result["vm_id"]
        /\ \A x \in DOMAIN last.result \cap DOMAIN dev.settings :
              dev.settings[x] = last.result[x]
        /\ dev.initialized
        /\ dev.registered
        /\ Cardinality(Signals(dev.out, "created")) = 1
        /\ dev.nCreated = 1
        /\ Signals(dev.out, "updated") = {}
        /\ ModuleCalls(dev.out, "addNode") # {}

\* the create response for setup("R1") has been handled
C6_Witness ==
    /\ last.op = "setupCallback"
    /\ ~last.error
    /\ session = 1
    /\ name(dev) = "R1"
    /\ dev.settings["console"] = "5000"
    /\ dev.vm_id = "v1"
    /\ dev.nCreated = 1

\* C7: importConfigFromDirectory() on a directory without the expected file
\* emits one warning and nothing else, sends no request, changes no setting.
C7_ImportMissingFile ==
    [][(/\ last'.op = "importConfigFromDirectory"
        /\ last'.args[2]
        /\ ~last'.args[3])
        => /\ Cardinality(Signals(dev'.out, "warning")) = 1
           /\ Len(dev'.out) = 1
           /\ net' = net
           /\ State(dev') = State(dev)]_vars

\* the import has been called on an initialized device for a directory that
\* lacks the file
C7_Witness ==
    /\ last.op = "importConfigFromDirectory"
    /\ last.args[2]
    /\ ~last.args[3]
    /\ dev.initialized
    /\ Signals(dev.out, "warning") # {}

\* C8: an import whose file exists sends an update request whose body holds
\* the content of the file under startup_script, and no path of a file.
ImportRead ==
    \/ last.op = "importConfig" /\ last.args[2]
    \/ last.op = "importConfigFromDirectory" /\ last.args[2] /\ last.args[3]

C8_ImportSendsScriptContent ==
    (ImportRead /\ dev.initialized) =>
        /\ Requests(dev.out) # {}
        /\ \A i \in Requests(dev.out) :
              /\ dev.out[i].n = "update"
              /\ DOMAIN dev.out[i].body \subseteq {"startup_script"}
              /\ \A x \in DOMAIN dev.out[i].body : dev.out[i].body[x] \in Scripts

\* C9: a failure of the file system in an import or an export ends in an
\* error notification, and the operation raises nothing.
FileSystemFailure ==
    \/ last.op = "importConfig" /\ ~last.args[2]
    \/ last.op = "importConfigFromDirectory" /\ ~last.args[2]
    \/ /\ last.op = "exportConfigCallback"
       /\ ~last.error
       /\ ~last.args[1]
       /\ Has(last.result, "startup_script")
       /\ Truthy(dev.config_export_path)
    \/ /\ last.op = "exportConfigToDirectoryCallback"
       /\ ~last.error
       /\ ~last.args[1]
       /\ Has(last.result, "startup_script")
       /\ ~RaisedOf(dev, "TypeError")
       /\ ~RaisedOf(dev, "AttributeError")

C9_FileSystemFailureIsReported ==
    (FileSystemFailure /\ dev.initialized)
        => (Signals(dev.out, "error") # {} /\ ~Raised(dev))

\* the part of C9 about the two exports
C9_ExportFailureIsReported ==
    (FileSystemFailure /\ last.op \notin {"importConfig", "importConfigFromDirectory"})
        => (Signals(dev.out, "error") # {} /\ ~Raised(dev))

\* the write of an export has failed
C9_ExportWitness ==
    /\ FileSystemFailure
    /\ last.op = "exportConfigToDirectoryCallback"

\* C10 as stated: reload() sends one request, and its response changes
\* nothing of the device and emits nothing.
C10_ReloadSilent ==
    [][/\ last'.op = "reload" =>
            /\ Cardinality(Requests(dev'.out)) = 1
            /\ Len(dev'.out) = 1
            /\ State(dev') = State(dev)
       /\ last'.op = "reloadCallback" =>
            /\ State(dev') = State(dev)
            /\ dev'.out = <<>>]_vars

\* C10 as amended: the response changes nothing of the device; a success
\* emits nothing, a failure emits one server-error notification.
C10_ReloadChangesNothing ==
    [][/\ last'.op = "reload" =>
            /\ Cardinality(Requests(dev'.out)) = 1
            /\ Len(dev'.out) = 1
            /\ State(dev') = State(dev)
       /\ last'.op = "reloadCallback" =>
            /\ State(dev') = State(dev)
            /\ IF last'.error
               THEN Len(dev'.out) = 1 /\ Cardinality(Signals(dev'.out, "server_error")) = 1
               ELSE dev'.out = <<>>]_vars

\* a reload response has been delivered to a started device, without error
C10_Witness ==
    /\ last.op = "reloadCallback"
    /\ ~last.error
    /\ dev.status = "started"
    /\ dev.out = <<>>

\* the callbacks of the operations whose failure the server reports
ReportingCallbacks ==
    {"setupCallback", "updateCallback", "startCallback", "stopCallback",
     "allocateUDPPortCallback", "addNIOCallback", "deleteNIOCallback"}

\* the notifications of success
SuccessSignals == {"created", "updated", "started", "stopped", "nio", "allocate_udp_nio"}

SuccessEmitted(o) == {i \in AllSignals(o) : o[i].n \in SuccessSignals}

\* C11: a response with the error flag, delivered to the callback of setup,
\* update, start, stop, allocateUDPPort, addNIO or deleteNIO, emits a
\* server-error notification and no notification of success, and leaves the
\* settings, the remote id, the status, the status of the port and the
\* initialized flag as they were.
C11_ErrorResponseChangesNothing ==
    [][(last'.op \in ReportingCallbacks /\ last'.error)
        => /\ Signals(dev'.out, "server_error") # {}
           /\ SuccessEmitted(dev'.out) = {}
           /\ dev'.settings = dev.settings
           /\ dev'.vm_id = dev.vm_id
           /\ dev'.status = dev.status
           /\ dev'.port.status = dev.port.status
           /\ dev'.initialized = dev.initialized]_vars

\* a start request has failed on an initialized, stopped device
C11_Witness ==
    /\ last.op = "startCallback"
    /\ last.error
    /\ dev.initialized
    /\ dev.status = "stopped"
    /\ Signals(dev.out, "server_error") # {}

\* C12: a successful start (stop) response sets the status of the device and
\* of port 0 to started (stopped) and then emits one "started" ("stopped")
\* notification, both statuses being set when it is emitted; in every state
\* between handlers the status of port 0 is the status of the device.
C12_StatusAndPortStatusAgree ==
    /\ dev.port.status = dev.status
    /\ \A s \in {"started", "stopped"} :
          (last.op = (IF s = "started" THEN "startCallback" ELSE "stopCallback") /\ ~last.error)
          => /\ dev.status = s
             /\ dev.port.status = s
             /\ Cardinality(Signals(dev.out, s)) = 1
             /\ \A i \in Signals(dev.out, s) :
                   dev.out[i].at.status = s /\ dev.out[i].at.port.status = s

\* a started device has been stopped by a successful stop response
C12_Witness ==
    /\ last.op = "stopCallback"
    /\ ~last.error
    /\ dev.initialized
    /\ dev.status = "stopped"
    /\ dev.port.status = "stopped"
    /\ Signals(dev.out, "stopped") # {}

\* C13: the remote id is unset at construction and is set only by a create
\* response delivered without error, to the id of that response; after a
\* create response with an error the remote id is still unset, the device is
\* neither initialized nor registered and no "created" has been emitted.
C13_RemoteIdOnlyFromCreate ==
    /\ ~Truthy(dev.vm_id)
    /\ [][/\ (dev'.vm_id # dev.vm_id /\ Truthy(dev'.vm_id))
              => /\ last'.op = "setupCallback"
                 /\ ~last'.error
                 /\ dev'.vm_id = last'.result["vm_id"]
          /\ (last'.op = "setupCallback" /\ last'.error)
              => /\ ~Truthy(dev'.vm_id)
                 /\ ~dev'.initialized
                 /\ ~dev'.registered
                 /\ Signals(dev'.out, "created") = {}
                 /\ dev'.nCreated = 0]_vars

\* the create request of a load has failed: the record names a remote id and
\* the device has none
C13_Witness ==
    /\ session = 2
    /\ last.op = "setupCallback"
    /\ last.error
    /\ Truthy(saved[1].vm_id)
    /\ ~Truthy(dev.vm_id)
    /\ ~dev.initialized

\* C14: the request of allocateUDPPort(port_id) carries port_id to its
\* callback, whatever other requests are in flight; a response without error
\* emits one UDP-port-allocated notification with the device id, the port id
\* of its request and the udp_port of the response, and nothing else; a
\* response with an error emits a server-error notification and no
\* UDP-port-allocated notification.
C14_UdpPortBoundToItsCall ==
    [][/\ last'.op = "allocateUDPPort"
          => /\ Cardinality(Requests(dev'.out)) = 1
             /\ \A i \in Requests(dev'.out) :
                   dev'.out[i].n = "udp" /\ dev'.out[i].a[3] = last'.args[1]
       /\ (last'.op = "allocateUDPPortCallback" /\ ~last'.error)
          => /\ Len(dev'.out) = 1
             /\ dev'.out[1].k = "signal"
             /\ dev'.out[1].n = "allocate_udp_nio"
             /\ dev'.out[1].a = <<NodeId, last'.bound, last'.result["udp_port"]>>
       /\ (last'.op = "allocateUDPPortCallback" /\ last'.error)
          => /\ Signals(dev'.out, "server_error") # {}
             /\ Signals(dev'.out, "allocate_udp_nio") = {}]_vars

\* two allocations for different ports are answered with different UDP ports;
\* the answer for port 8 has been handled while the one for port 7 waits
C14_Witness ==
    /\ last.op = "allocateUDPPortCallback"
    /\ ~last.error
    /\ last.bound = "8"
    /\ last.result["udp_port"] = "10001"
    /\ dev.out[1].a = <<NodeId, "8", "10001">>
    /\ \E m \in InFlight :
          /\ m.stage = "resp"
          /\ m.kind = "udp"
          /\ ~m.error
          /\ m.bound = "7"
          /\ m.result["udp_port"] = "10000"

\* C15: delete() emits "links detaching" first, before the delete request and
\* before "deleted"; it issues a delete request, for the device's remote id,
\* exactly when the device has one, and then emits no "deleted"; when the
\* device has none, "deleted" and the removal from the collection happen in
\* the call.
C15_DeleteOrder ==
    [][last'.op = "delete"
        => /\ Cardinality(Signals(dev'.out, "delete_links")) = 1
           /\ dev'.out[1].k = "signal"
           /\ dev'.out[1].n = "delete_links"
           /\ (Requests(dev'.out) # {}) = Truthy(dev.vm_id)
           /\ IF Truthy(dev.vm_id)
              THEN /\ Len(dev'.out) = 2
                   /\ dev'.out[2].k = "request"
                   /\ dev'.out[2].n = "delete"
                   /\ dev'.out[2].a[1] = dev.vm_id
                   /\ Signals(dev'.out, "deleted") = {}
                   /\ dev'.registered = dev.registered
              ELSE /\ Len(dev'.out) = 3
                   /\ dev'.out[2].k = "signal"
                   /\ dev'.out[2].n = "deleted"
                   /\ dev'.out[3].k = "module"
                   /\ dev'.out[3].n = "removeNode"
                   /\ ~dev'.registered]_vars

\* delete() has been called on a registered device that has a remote id
C15_Witness ==
    /\ last.op = "delete"
    /\ Truthy(dev.vm_id)
    /\ dev.registered
    /\ dev.nDelete = 1
    /\ Len(dev.out) = 2
    /\ dev.out[1].n = "delete_links"
    /\ dev.out[2].n = "delete"

\* delete() has been called on a device that has no remote id
C15_WitnessNoRemoteId ==
    /\ last.op = "delete"
    /\ ~Truthy(dev.vm_id)
    /\ dev.nDeleted = 1
    /\ Signals(dev.out, "deleted") # {}

\* port 0 as the saved record describes it
SavedPort == saved[1].ports[1]

\* C16: a device that loads a record is not initialized, not registered and
\* has emitted no "created" until a create response without error has been
\* delivered to it; the callback of that response emits "updated", then, with
\* the name and id of port 0 set from the record, marks the device
\* initialized, emits "created" and registers the device; "created" is
\* emitted once, and the loading flag is set from load() until then.
C16_LoadSequenceOrder ==
    [][session' = 2
        => /\ (dev'.initialized \/ dev'.registered \/ dev'.nCreated > 0)
              => /\ dev'.initialized /\ dev'.registered /\ dev'.nCreated = 1
                 /\ Truthy(dev'.vm_id)
                 /\ dev'.port.name = SavedPort.name
                 /\ dev'.port.id = SavedPort.id
           /\ dev'.loading = ~dev'.initialized
           /\ (dev'.initialized /\ ~(session = 2 /\ dev.initialized))
              => (last'.op = "setupCallback" /\ ~last'.error)
           /\ (last'.op = "setupCallback" /\ ~last'.error)
              => /\ Len(dev'.out) = 3
                 /\ dev'.out[1].k = "signal" /\ dev'.out[1].n = "updated"
                 /\ dev'.out[1].at.vm_id = last'.result["vm_id"]
                 /\ ~dev'.out[1].at.initialized
                 /\ ~dev'.out[1].at.registered
                 /\ dev'.out[2].k = "signal" /\ dev'.out[2].n = "created"
                 /\ dev'.out[2].at.initialized
                 /\ dev'.out[2].at.port.name = SavedPort.name
                 /\ dev'.out[2].at.port.id = SavedPort.id
                 /\ dev'.out[3].k = "module" /\ dev'.out[3].n = "addNode"
                 /\ dev'.initialized /\ dev'.registered]_vars

\* the create response of a load has been handled: the port of the new
\* device has the id of the saved port
C16_Witness ==
    /\ session = 2
    /\ last.op = "setupCallback"
    /\ ~last.error
    /\ Len(dev.out) = 3
    /\ dev.out[1].n = "updated"
    /\ dev.out[2].n = "created"
    /\ dev.port.id = FirstPortId
    /\ ~dev.loading

\* the completion handlers, and the notifications of success each announces
CompletionHandlers ==
    {"setupCallback", "deleteCallback", "updateCallback", "startCallback", "stopCallback",
     "reloadCallback", "allocateUDPPortCallback", "addNIOCallback", "deleteNIOCallback",
     "exportConfigCallback", "exportConfigToDirectoryCallback"}

Announces(op) ==
    CASE op = "setupCallback" -> {"created", "updated"}
      [] op = "updateCallback" -> {"updated"}
      [] op = "startCallback" -> {"started"}
      [] op = "stopCallback" -> {"stopped"}
      [] op = "allocateUDPPortCallback" -> {"allocate_udp_nio"}
      [] op = "addNIOCallback" -> {"nio"}
      [] OTHER -> {}

\* when effect i of the last handler happened, the device had the remote id,
\* the settings and the statuses that the handler left
ReconciledAt(i) ==
    /\ dev.out[i].at.vm_id = dev.vm_id
    /\ dev.out[i].at.settings = dev.settings
    /\ dev.out[i].at.status = dev.status
    /\ dev.out[i].at.port.status = dev.port.status

\* and port 0 had the name and the id that the handler left
PortIdentityAt(i) ==
    /\ dev.out[i].at.port.name = dev.port.name
    /\ dev.out[i].at.port.id = dev.port.id

Differing(s, e) == {x \in DOMAIN e : x \in DOMAIN s /\ s[x] # e[x]}

\* C18: an update() that passes the name check sends one request, whose body
\* holds the keys of new_settings that are settings keys with another value,
\* and their new values; a response without error gives each settings key
\* whose value in the response differs that value and leaves the others, the
\* name in the table of names is replaced exactly when the name changes, and
\* "updated" is emitted, once, exactly when a key changed or the device is
\* loading.
C18_UpdateSendsAndAppliesDiff ==
    [][/\ (last'.op = "update" /\ ~NameCollision(dev, last'.args[1]))
          => /\ Len(dev'.out) = 1
             /\ dev'.out[1].k = "request"
             /\ dev'.out[1].n = "update"
             /\ DOMAIN dev'.out[1].body = Differing(dev.settings, last'.args[1])
             /\ \A x \in DOMAIN dev'.out[1].body : dev'.out[1].body[x] = last'.args[1][x]
             /\ State(dev') = State(dev)
       /\ (last'.op = "updateCallback" /\ ~last'.error)
          => LET ch == Differing(dev.settings, last'.result)
             IN  /\ DOMAIN dev'.settings = DOMAIN dev.settings
                 /\ \A x \in DOMAIN dev.settings :
                       dev'.settings[x] = IF x \in ch THEN last'.result[x] ELSE dev.settings[x]
                 /\ dev'.allocated_names =
                       IF "name" \in ch
                       THEN (dev.allocated_names \ {name(dev)}) \cup {last'.result["name"]}
                       ELSE dev.allocated_names
                 /\ Cardinality(Signals(dev'.out, "updated")) =
                       IF ch # {} \/ dev.loading THEN 1 ELSE 0]_vars

\* an update response that changes no setting has been delivered to a device
\* that is loading, and "updated" has been emitted
C18_Witness ==
    /\ last.op = "updateCallback"
    /\ ~last.error
    /\ session = 2
    /\ Differing(dev.settings, last.result) = {}
    /\ last.result = EmptyDict
    /\ Signals(dev.out, "updated") # {}

\* an update response has changed the name and the console port
C18_WitnessChanged ==
    /\ last.op = "updateCallback"
    /\ ~last.error
    /\ Truthy(dev.vm_id)
    /\ name(dev) = "R3"
    /\ dev.settings["console"] = "5001"
    /\ Signals(dev.out, "updated") # {}

\* C19: a device that is marked initialized, or is registered with its
\* collection, has a remote id.
C19_InitializedHasRemoteId ==
    (dev.initialized \/ dev.registered) => Truthy(dev.vm_id)

\* the create request of a load has failed, an update called afterwards has
\* been answered without error, and its callback has left the device
\* initialized and registered without a remote id
C19_FailedLoadThenUpdate ==
    /\ session = 2
    /\ last.op = "updateCallback"
    /\ ~last.error
    /\ \A m \in InFlight : m.kind # "create"
    /\ dev.initialized
    /\ dev.registered
    /\ ~Truthy(dev.vm_id)
    /\ Signals(dev.out, "created") # {}

\* the requests against the resource path of the device
PerDeviceRequests ==
    {"update", "start", "stop", "reload", "addNIO", "deleteNIO", "get", "delete"}

\* C20: once setup() has been called, every request against the resource path
\* of the device is keyed by a remote id: the device issues none while its
\* remote id is unset, before the create response or after a failed one.
C20_RequestsKeyedByRemoteId ==
    dev.nSetup > 0 =>
        \A i \in Requests(dev.out) :
            dev.out[i].n \in PerDeviceRequests
            => (Truthy(dev.out[i].a[1]) /\ dev.out[i].a[1] = dev.out[i].at.vm_id)

\* start() has been called after setup() and before the create response, and
\* has issued a request keyed by the unset remote id
C20_StartBeforeCreated ==
    /\ last.op = "start"
    /\ dev.nSetup = 1
    /\ ~Truthy(dev.vm_id)
    /\ \E i \in Requests(dev.out) : dev.out[i].n = "start" /\ dev.out[i].a[1] = None

\* the file effects of the last handler
Writes(o) == {i \in 1..Len(o) : o[i].k = "write"}

\* an export response without error that carries a script, whose write succeeds
ExportAnswered(cb) ==
    /\ last.op = cb
    /\ ~last.error
    /\ last.args[1]
    /\ Has(last.result, "startup_script")
    /\ Truthy(last.result["startup_script"])

\* C21: an export response without error writes the script it carries to the
\* destination named in the call that issued its request, the path of
\* exportConfig or the file of the device in the directory of
\* exportConfigToDirectory, and its callback raises nothing, whatever other
\* export requests are outstanding.
C21_ExportWritesToItsDestination ==
    /\ ExportAnswered("exportConfigCallback")
          => /\ ~Raised(dev)
             /\ Cardinality(Writes(dev.out)) = 1
             /\ \A i \in Writes(dev.out) :
                   /\ dev.out[i].n = last.args[2]
                   /\ dev.out[i].a = <<last.result["startup_script"]>>
    /\ ExportAnswered("exportConfigToDirectoryCallback")
          => /\ ~Raised(dev)
             /\ Cardinality(Writes(dev.out)) = 1
             /\ \A i \in Writes(dev.out) :
                   /\ dev.out[i].n = ScriptPath(last.args[2], normalize_filename(name(dev)))
                   /\ dev.out[i].a = <<last.result["startup_script"]>>

\* the response to exportConfig("out1") has been written to out2, the path of
\* a later call whose response is still on its way
C21_WrittenToTheOtherPath ==
    /\ ExportAnswered("exportConfigCallback")
    /\ last.args[2] = "out1"
    /\ \E i \in Writes(dev.out) : dev.out[i].n = "out2"
    /\ \E m \in InFlight : m.cb = "exportConfigCallback" /\ m.dest = "out2"

\* the second of two responses to exportConfigToDirectory has raised a
\* TypeError, the first having reset the directory
C21_SecondResponseRaises ==
    /\ ExportAnswered("exportConfigToDirectoryCallback")
    /\ RaisedOf(dev, "TypeError")
    /\ dev.export_directory = None
    /\ Writes(dev.out) = {}

\* C22: once the device has emitted "deleted" and left its collection, no
\* handler emits a notification or changes the device, also when responses
\* to requests issued before delete() arrive; "deleted" is emitted at most
\* once and the device is not registered again.
C22_NothingAfterDeleted ==
    [][dev.nDeleted > 0
        => /\ AllSignals(dev'.out) = {}
           /\ State(dev') = State(dev)
           /\ dev'.nDeleted = 1
           /\ ~dev'.registered]_vars

\* the create response has arrived after a delete() that completed in the
\* call, and has registered the deleted device
C22_RegisteredAfterDeleted ==
    /\ last.op = "setupCallback"
    /\ ~last.error
    /\ dev.nDeleted = 1
    /\ dev.registered
    /\ Signals(dev.out, "created") # {}

\* a start response has arrived after "deleted" and has marked the device
\* started
C22_StartedAfterDeleted ==
    /\ last.op = "startCallback"
    /\ ~last.error
    /\ dev.nDeleted = 1
    /\ dev.status = "started"
    /\ Signals(dev.out, "started") # {}

\* the responses to two delete requests have both emitted "deleted"
C22_DeletedTwice ==
    /\ last.op = "deleteCallback"
    /\ dev.nDeleted = 2
    /\ Signals(dev.out, "deleted") # {}

====
